---------------------------- MODULE Spec2Model ----------------------------
(***************************************************************************)
(* A model of the snake game: the Snake / Food library (lib/snake_lib.py)  *)
(* and the pygame driven game loop (snake_game/game_logic.py).             *)
(*                                                                         *)
(* Two specifications share the variables:                                 *)
(*   Spec     the game loop: rounds of ticks, game over, retry, quit;      *)
(*   LibSpec  the Snake class used directly: a snake constructed from any  *)
(*            initial_positions, then any sequence of move,                *)
(*            continue_moving and grow calls.                              *)
(*                                                                         *)
(* The source plays on a 40 x 40 grid.  The model keeps the code's         *)
(* comparisons against GAME_WIDTH and GAME_HEIGHT and checks them on a     *)
(* scaled grid; nothing in the code depends on the number 40.              *)
(***************************************************************************)
EXTENDS Integers, Sequences, FiniteSets

VARIABLES
    positions,   \* Snake._positions : list of (x, y), head first
    length,      \* Snake._length    : the target length
    direction,   \* Snake._direction : the facing
    food,        \* Food._position of the round's current Food
    pc,          \* where the program is: "Running", "GameOver", "Exited", "Lib"
    call,        \* the last operation applied to the snake: [op, arg]
    result,      \* what that operation returned
    ate,         \* TRUE iff the last tick took the eat branch
    idle,        \* the run of ticks without input that ends at the last tick
    fresh,       \* TRUE iff no tick of this round had input so far
    quit_dequeued \* TRUE iff some poll so far fetched a QUIT event

vars == <<positions, length, direction, food, pc, call, result, ate,
          idle, fresh, quit_dequeued>>

----------------------------------------------------------------------------
(* Bounds of the model *)

\* grid width and height (40 in the source, scaled)
GAME_WIDTH == 5
GAME_HEIGHT == 3

\* ticks that would grow the snake beyond this target length are not explored
MaxLength == 5

\* number of events one pygame.event.get() poll may fetch
MaxEvents == 2

\* LibSpec: longest initial_positions list handed to Snake(...)
MaxInitLen == 2

\* LibSpec: grow() is not explored beyond this target length
LibMaxLength == 3

----------------------------------------------------------------------------
(* lib/snake_lib.py *)

Direction == {"UP", "DOWN", "LEFT", "RIGHT"}

MoveFailure == {"WALL_HIT", "SNAKE_HIT"}

\* the return values of move / continue_moving
MoveResult(d, new_head) == [kind |-> "MoveResult", direction |-> d, new_head |-> new_head]
Failure(reason) == [kind |-> "MoveFailure", reason |-> reason]
ValueError == [kind |-> "ValueError"]
NoResult == [kind |-> "None"]

Range(s) == {s[i] : i \in 1 .. Len(s)}

\* list.insert(0, x) and list.pop()
Insert0(s, x) == <<x>> \o s
Pop(s) == SubSeq(s, 1, Len(s) - 1)

\* _wall_collision with the upper bounds off by one (> for >=)
_wall_collision_off_by_one(position) ==
    LET x == position[1]
        y == position[2]
    IN  x < 0 \/ x > GAME_WIDTH \/ y < 0 \/ y > GAME_HEIGHT

\* _wall_collision without the test of the right edge
_wall_collision_no_right_wall(position) ==
    LET x == position[1]
        y == position[2]
    IN  x < 0 \/ y < 0 \/ y >= GAME_HEIGHT

_wall_collision(position) ==
    LET x == position[1]
        y == position[2]
    IN  x < 0 \/ x >= GAME_WIDTH \/ y < 0 \/ y >= GAME_HEIGHT

\* _check_collisions that lets the head enter the tail cell (positions[1:-1])
_check_collisions_skips_tail(ps, new_head) ==
    IF _wall_collision(new_head) THEN "WALL_HIT"
    ELSE IF new_head \in Range(SubSeq(ps, 2, Len(ps) - 1)) THEN "SNAKE_HIT"
    ELSE "None"

\* _check_collisions that tests the wall only
_check_collisions_wall_only(ps, new_head) ==
    IF _wall_collision(new_head) THEN "WALL_HIT" ELSE "None"

\* returns "WALL_HIT", "SNAKE_HIT" or "None"
_check_collisions(ps, new_head) ==
    IF _wall_collision(new_head) THEN "WALL_HIT"
    ELSE IF new_head \in Range(Tail(ps)) THEN "SNAKE_HIT"
    ELSE "None"

\* _move_head that inserts the new head before it checks for a collision
_move_head_inserts_first(ps, len, new_head) ==
    LET collision == _check_collisions(ps, new_head)
        inserted == Insert0(ps, new_head)
    IN  IF collision # "None"
        THEN [collision |-> collision, positions |-> inserted]
        ELSE [collision |-> "None",
              positions |-> IF Len(inserted) > len THEN Pop(inserted) ELSE inserted]

\* _move_head that never removes the tail
_move_head_never_pops(ps, len, new_head) ==
    LET collision == _check_collisions(ps, new_head) IN
    IF collision # "None"
    THEN [collision |-> collision, positions |-> ps]
    ELSE [collision |-> "None", positions |-> Insert0(ps, new_head)]

\* _move_head that pops as soon as the list reaches the target length (>= for >)
_move_head_pops_at_target(ps, len, new_head) ==
    LET collision == _check_collisions(ps, new_head) IN
    IF collision # "None"
    THEN [collision |-> collision, positions |-> ps]
    ELSE LET inserted == Insert0(ps, new_head) IN
         [collision |-> "None",
          positions |-> IF Len(inserted) >= len THEN Pop(inserted) ELSE inserted]

\* returns the collision and the list after the call
_move_head(ps, len, new_head) ==
    LET collision == _check_collisions(ps, new_head) IN
    IF collision # "None"
    THEN [collision |-> collision, positions |-> ps]
    ELSE LET inserted == Insert0(ps, new_head) IN
         [collision |-> "None",
          positions |-> IF Len(inserted) > len THEN Pop(inserted) ELSE inserted]

\* an optional argument: None, or a list
None == [none |-> TRUE]
Some(list) == [none |-> FALSE, list |-> list]

DefaultPositions == << <<1, 1>>, <<0, 0>> >>

\* Snake.__init__
Snake(initial_positions) ==
    LET given == IF initial_positions.none
                 THEN DefaultPositions
                 ELSE initial_positions.list
    IN  [positions |-> given,
         length    |-> Len(given),
         direction |-> "RIGHT"]

\* continue_moving whose RIGHT branch steps along y (the DOWN line pasted)
continue_moving_right_is_down(s) ==
    LET current_x == s.positions[1][1]
        current_y == s.positions[1][2]
        new_head ==
            IF s.direction = "UP" THEN <<current_x, current_y - 1>>
            ELSE IF s.direction = "DOWN" THEN <<current_x, current_y + 1>>
            ELSE IF s.direction = "LEFT" THEN <<current_x - 1, current_y>>
            ELSE <<current_x, current_y + 1>>
        moved == _move_head(s.positions, s.length, new_head)
    IN  [snake  |-> [s EXCEPT !.positions = moved.positions],
         result |-> IF moved.collision # "None"
                    THEN Failure(moved.collision)
                    ELSE MoveResult(s.direction, new_head)]

\* Snake.continue_moving on the snake s = [positions, length, direction]
continue_moving(s) ==
    LET current_x == s.positions[1][1]
        current_y == s.positions[1][2]
        new_head ==
            IF s.direction = "UP" THEN <<current_x, current_y - 1>>
            ELSE IF s.direction = "DOWN" THEN <<current_x, current_y + 1>>
            ELSE IF s.direction = "LEFT" THEN <<current_x - 1, current_y>>
            ELSE <<current_x + 1, current_y>>
        moved == _move_head(s.positions, s.length, new_head)
    IN  [snake  |-> [s EXCEPT !.positions = moved.positions],
         result |-> IF moved.collision # "None"
                    THEN Failure(moved.collision)
                    ELSE MoveResult(s.direction, new_head)]

\* the if / elif chain with three places left open: the facing that rejects
\* LEFT, the step UP takes along y, and what the final else leaves
TurnVariant(s, d, rejects_left, up_dy, otherwise) ==
    LET current_x == s.positions[1][1]
        current_y == s.positions[1][2]
    IN  IF d = "UP" THEN
            IF s.direction # "DOWN"
            THEN [direction |-> "UP", new_head |-> <<current_x, current_y + up_dy>>]
            ELSE [direction |-> s.direction, new_head |-> <<>>]
        ELSE IF d = "DOWN" THEN
            IF s.direction # "UP"
            THEN [direction |-> "DOWN", new_head |-> <<current_x, current_y + 1>>]
            ELSE [direction |-> s.direction, new_head |-> <<>>]
        ELSE IF d = "LEFT" THEN
            IF s.direction # rejects_left
            THEN [direction |-> "LEFT", new_head |-> <<current_x - 1, current_y>>]
            ELSE [direction |-> s.direction, new_head |-> <<>>]
        ELSE IF d = "RIGHT" THEN
            IF s.direction # "LEFT"
            THEN [direction |-> "RIGHT", new_head |-> <<current_x + 1, current_y>>]
            ELSE [direction |-> s.direction, new_head |-> <<>>]
        ELSE otherwise

\* the chain with LEFT tested against LEFT: a LEFT turn is accepted facing RIGHT
Turn_accepts_reverse(s, d) ==
    TurnVariant(s, d, "LEFT", -1, [direction |-> "raise", new_head |-> <<>>])

\* the chain with UP stepping to y + 1
Turn_up_is_down(s, d) ==
    TurnVariant(s, d, "RIGHT", 1, [direction |-> "raise", new_head |-> <<>>])

\* the chain without its final else: an unknown direction leaves new_head None
\* and the snake continues in its facing
Turn_ignores_unknown(s, d) ==
    TurnVariant(s, d, "RIGHT", -1, [direction |-> s.direction, new_head |-> <<>>])

\* the if / elif chain at the head of Snake.move: the facing it leaves and the
\* new head it computes (<<>> is None); "raise" for the ValueError
Turn(s, d) ==
    LET current_x == s.positions[1][1]
        current_y == s.positions[1][2]
    IN  IF d = "UP" THEN
            IF s.direction # "DOWN"
            THEN [direction |-> "UP", new_head |-> <<current_x, current_y - 1>>]
            ELSE [direction |-> s.direction, new_head |-> <<>>]
        ELSE IF d = "DOWN" THEN
            IF s.direction # "UP"
            THEN [direction |-> "DOWN", new_head |-> <<current_x, current_y + 1>>]
            ELSE [direction |-> s.direction, new_head |-> <<>>]
        ELSE IF d = "LEFT" THEN
            IF s.direction # "RIGHT"
            THEN [direction |-> "LEFT", new_head |-> <<current_x - 1, current_y>>]
            ELSE [direction |-> s.direction, new_head |-> <<>>]
        ELSE IF d = "RIGHT" THEN
            IF s.direction # "LEFT"
            THEN [direction |-> "RIGHT", new_head |-> <<current_x + 1, current_y>>]
            ELSE [direction |-> s.direction, new_head |-> <<>>]
        ELSE [direction |-> "raise", new_head |-> <<>>]

\* Snake.move on the snake s with the requested direction d
move(s, d) ==
    LET turn == Turn(s, d) IN
    IF turn.direction = "raise" THEN [snake |-> s, result |-> ValueError]
    ELSE IF turn.new_head = <<>> THEN continue_moving(s)
    ELSE LET moved == _move_head(s.positions, s.length, turn.new_head) IN
         [snake  |-> [s EXCEPT !.direction = turn.direction,
                               !.positions = moved.positions],
          result |-> IF moved.collision # "None"
                     THEN Failure(moved.collision)
                     ELSE MoveResult(turn.direction, turn.new_head)]

\* grow that adds two cells to the target length
grow_by_two(s) == [s EXCEPT !.length = s.length + 2]

\* Snake.grow
grow(s) == [s EXCEPT !.length = s.length + 1]

\* Snake.get_head
get_head(s) == s.positions[1]

\* _get_food_position with randint(0, GAME_WIDTH) and randint(0, GAME_HEIGHT)
_get_food_position_to_the_bound == (0 .. GAME_WIDTH) \X (0 .. GAME_HEIGHT)

\* the positions a new Food may get: random.randint is inclusive on both ends
_get_food_position == (0 .. GAME_WIDTH - 1) \X (0 .. GAME_HEIGHT - 1)

\* the snake held in the variables
snake == [positions |-> positions, length |-> length, direction |-> direction]

SetSnake(s) ==
    /\ positions' = s.positions
    /\ length' = s.length
    /\ direction' = s.direction

----------------------------------------------------------------------------
(* snake_game/game_logic.py *)

\* what pygame.event.get() may hold: the window's close, a key press, anything else
Event == {"QUIT", "K_UP", "K_DOWN", "K_LEFT", "K_RIGHT", "K_OTHER", "OTHER"}

EventBatch == UNION {[1 .. n -> Event] : n \in 0 .. MaxEvents}

RECURSIVE _check_for_input(_)
\* returns a Direction, "None", or "exit" when exit(0) is called
_check_for_input(events) ==
    IF events = <<>> THEN "None"
    ELSE LET event == Head(events) IN
         IF event = "QUIT" THEN "exit"
         ELSE IF event = "K_UP" THEN "UP"
         ELSE IF event = "K_DOWN" THEN "DOWN"
         ELSE IF event = "K_LEFT" THEN "LEFT"
         ELSE IF event = "K_RIGHT" THEN "RIGHT"
         ELSE _check_for_input(Tail(events))

RECURSIVE _check_for_any_key_down(_)
\* returns "True", "False", or "exit" when exit(0) is called
_check_for_any_key_down(events) ==
    IF events = <<>> THEN "False"
    ELSE LET event == Head(events) IN
         IF event = "QUIT" THEN "exit"
         ELSE IF event # "OTHER" THEN "True"
         ELSE _check_for_any_key_down(Tail(events))

\* one poll of the event queue: what the function returns for the events that
\* pygame.event.get() hands over (and removes from the queue), and whether a
\* QUIT was among them
PolledInput ==
    {[returns |-> _check_for_input(events), quit |-> "QUIT" \in Range(events)] :
        events \in EventBatch}
PolledKeyDown ==
    {[returns |-> _check_for_any_key_down(events), quit |-> "QUIT" \in Range(events)] :
        events \in EventBatch}

\* a round that keeps the snake of the round before (Snake() hoisted out of
\* _run_game_iteration) and only makes a new Food
StartRound_keeps_snake(how) ==
    /\ UNCHANGED <<positions, length, direction>>
    /\ food' \in _get_food_position
    /\ pc' = "Running"
    /\ call' = [op |-> how, arg |-> "None"]
    /\ result' = NoResult
    /\ ate' = FALSE
    /\ idle' = 0
    /\ fresh' = TRUE

\* the head of _run_game_iteration: snake = Snake(); food = Food()
StartRound(how) ==
    /\ SetSnake(Snake(None))
    /\ food' \in _get_food_position
    /\ pc' = "Running"
    /\ call' = [op |-> how, arg |-> "None"]
    /\ result' = NoResult
    /\ ate' = FALSE
    /\ idle' = 0
    /\ fresh' = TRUE

Init ==
    /\ positions = Snake(None).positions
    /\ length = Snake(None).length
    /\ direction = Snake(None).direction
    /\ food \in _get_food_position
    /\ pc = "Running"
    /\ call = [op |-> "start", arg |-> "None"]
    /\ result = NoResult
    /\ ate = FALSE
    /\ idle = 0
    /\ fresh = TRUE
    /\ quit_dequeued = FALSE

\* one pass of the while loop of _run_game_iteration, ending in exit(0)
TickQuit ==
    /\ pc = "Running"
    /\ \E poll \in PolledInput :
         /\ poll.returns = "exit"
         /\ quit_dequeued' = (quit_dequeued \/ poll.quit)
    /\ pc' = "Exited"
    /\ UNCHANGED <<positions, length, direction, food, call, result, ate, idle, fresh>>

\* the eat test comparing the x coordinates only
AteFood_x_only(s, f) == get_head(s)[1] = f[1]

\* the eat test against every cell of the snake
AteFood_anywhere_on_body(s, f) == f \in Range(s.positions)

\* the eat test of the loop: snake.get_head() == food.get_position()
AteFood(s, f) == get_head(s) = f

\* the pass without its break: a MoveFailure falls through to the eat test
AfterMove_no_break(r) ==
    IF AteFood(r.snake, food)
    THEN /\ r.snake.length < MaxLength
         /\ SetSnake(grow(r.snake))
         /\ food' \in _get_food_position
         /\ ate' = TRUE
         /\ pc' = "Running"
    ELSE /\ SetSnake(r.snake)
         /\ ate' = FALSE
         /\ UNCHANGED <<food, pc>>

\* the rest of a pass once the move has returned r = [snake, result]: the break
\* on a MoveFailure, else the eat test, grow and the new Food
AfterMove(r) ==
    IF r.result.kind = "MoveFailure"
    THEN /\ SetSnake(r.snake)
         /\ pc' = "GameOver"
         /\ UNCHANGED <<food, ate>>
    ELSE IF AteFood(r.snake, food)
    THEN /\ r.snake.length < MaxLength
         /\ SetSnake(grow(r.snake))
         /\ food' \in _get_food_position
         /\ ate' = TRUE
         /\ pc' = "Running"
    ELSE /\ SetSnake(r.snake)
         /\ ate' = FALSE
         /\ UNCHANGED <<food, pc>>

\* one pass of the while loop of _run_game_iteration
Tick ==
    /\ pc = "Running"
    /\ \E poll \in PolledInput :
         LET input == poll.returns
             r == IF input # "None" THEN move(snake, input) ELSE continue_moving(snake)
         IN  /\ input # "exit"
             /\ call' = IF input # "None"
                        THEN [op |-> "move", arg |-> input]
                        ELSE [op |-> "continue_moving", arg |-> "None"]
             /\ result' = r.result
             /\ AfterMove(r)
             /\ idle' = IF input # "None" THEN 0 ELSE idle + 1
             /\ fresh' = (fresh /\ input = "None")
             /\ quit_dequeued' = (quit_dequeued \/ poll.quit)

\* run_game_loop after a round: one poll of the retry wait
RetryWait ==
    /\ pc = "GameOver"
    /\ \E poll \in PolledKeyDown :
         LET retry == poll.returns IN
         /\ quit_dequeued' = (quit_dequeued \/ poll.quit)
         /\ IF retry = "exit"
            THEN /\ pc' = "Exited"
                 /\ UNCHANGED <<positions, length, direction, food, call, result,
                                ate, idle, fresh>>
            ELSE IF retry = "True"
            THEN StartRound("retry")
            ELSE UNCHANGED <<positions, length, direction, food, pc, call, result,
                             ate, idle, fresh>>

Next == Tick \/ TickQuit \/ RetryWait

Spec == Init /\ [][Next]_vars

----------------------------------------------------------------------------
(* The Snake class used directly *)

\* the cells an initial_positions list may name: the grid and one cell around it
InitCell == (-1 .. GAME_WIDTH) \X (-1 .. GAME_HEIGHT)

InitialPositions == UNION {[1 .. n -> InitCell] : n \in 1 .. MaxInitLen}

LibInit ==
    /\ \E initial_positions \in {None} \cup {Some(list) : list \in InitialPositions} :
         /\ positions = Snake(initial_positions).positions
         /\ length = Snake(initial_positions).length
         /\ direction = Snake(initial_positions).direction
    /\ food = <<0, 0>>
    /\ pc = "Lib"
    /\ call = [op |-> "Snake", arg |-> "None"]
    /\ result = NoResult
    /\ ate = FALSE
    /\ idle = 0
    /\ fresh = FALSE
    /\ quit_dequeued = FALSE

LibMove ==
    /\ pc = "Lib"
    /\ \E d \in Direction \cup {"BOGUS"} :
         LET r == move(snake, d) IN
         /\ SetSnake(r.snake)
         /\ result' = r.result
         /\ call' = [op |-> "move", arg |-> d]
    /\ UNCHANGED <<food, pc, ate, idle, fresh, quit_dequeued>>

LibContinue ==
    /\ pc = "Lib"
    /\ LET r == continue_moving(snake) IN
         /\ SetSnake(r.snake)
         /\ result' = r.result
    /\ call' = [op |-> "continue_moving", arg |-> "None"]
    /\ UNCHANGED <<food, pc, ate, idle, fresh, quit_dequeued>>

LibGrow ==
    /\ pc = "Lib"
    /\ length < LibMaxLength
    /\ SetSnake(grow(snake))
    /\ result' = NoResult
    /\ call' = [op |-> "grow", arg |-> "None"]
    /\ UNCHANGED <<food, pc, ate, idle, fresh, quit_dequeued>>

LibNext == LibMove \/ LibContinue \/ LibGrow

LibSpec == LibInit /\ [][LibNext]_vars

----------------------------------------------------------------------------
(* Vocabulary of the properties *)

Opposite(d) ==
    CASE d = "UP" -> "DOWN"
      [] d = "DOWN" -> "UP"
      [] d = "LEFT" -> "RIGHT"
      [] d = "RIGHT" -> "LEFT"

\* the cell one step from cell c in direction d
Step(c, d) ==
    CASE d = "UP" -> <<c[1], c[2] - 1>>
      [] d = "DOWN" -> <<c[1], c[2] + 1>>
      [] d = "LEFT" -> <<c[1] - 1, c[2]>>
      [] d = "RIGHT" -> <<c[1] + 1, c[2]>>

InGrid(c) == c[1] \in 0 .. GAME_WIDTH - 1 /\ c[2] \in 0 .. GAME_HEIGHT - 1

Blocked(reason) == [kind |-> "MoveFailure", reason |-> reason]

\* this step is the call move(d)
MoveStep(d) == call'.op = "move" /\ call'.arg = d

\* this step is a call of move with a Direction, or of continue_moving
AdvanceStep ==
    \/ call'.op = "move" /\ call'.arg \in Direction
    \/ call'.op = "continue_moving"

\* the candidate new head of an advance step: one cell from the head in the
\* facing the call leaves
Candidate == Step(positions[1], direction')

\* this step is a tick of a running session (not the exit on QUIT)
TickStep == pc = "Running" /\ pc' # "Exited"

----------------------------------------------------------------------------
(* Properties of the Snake class, checked under LibSpec *)

\* C1: move(d) with d the opposite of the facing behaves as continue_moving():
\* the facing is unchanged, the candidate head is the head offset one cell in
\* the facing, and the outcome and the body are those of continue_moving().
C1_OppositeMoveIsContinue ==
    [][\A d \in Direction :
         (MoveStep(d) /\ d = Opposite(direction)) =>
            /\ direction' = direction
            /\ length' = length
            /\ result' = continue_moving(snake).result
            /\ positions' = continue_moving(snake).snake.positions
            /\ result' \in {MoveResult(direction, Step(positions[1], direction)),
                            Blocked("WALL_HIT"), Blocked("SNAKE_HIT")}
            /\ (result'.kind = "MoveResult" =>
                  positions'[1] = Step(positions[1], direction))]_vars

\* a rejected reverse turn that moved the snake on in its facing
C1_Witness ==
    /\ pc = "Lib"
    /\ call.op = "move"
    /\ call.arg = Opposite(direction)
    /\ result.kind = "MoveResult"
    /\ result.direction = direction

\* C2: move(d) with d not the opposite of the facing sets the facing to d and
\* takes the head offset one cell in direction d as the candidate; on success
\* the MoveResult carries d and that head, which is the first body cell.
C2_AcceptedMoveTurns ==
    [][\A d \in Direction :
         (MoveStep(d) /\ d # Opposite(direction)) =>
            /\ direction' = d
            /\ result' \in {MoveResult(d, Step(positions[1], d)),
                            Blocked("WALL_HIT"), Blocked("SNAKE_HIT")}
            /\ (result'.kind = "MoveResult" =>
                  /\ positions'[1] = Step(positions[1], d)
                  /\ InGrid(Step(positions[1], d))
                  /\ Step(positions[1], d) \notin Range(Tail(positions)))
            /\ (result'.kind = "MoveFailure" =>
                  \/ ~InGrid(Step(positions[1], d))
                  \/ Step(positions[1], d) \in Range(Tail(positions)))]_vars

\* a turn (not straight on) that succeeded
C2_Witness ==
    /\ pc = "Lib"
    /\ call.op = "move"
    /\ call.arg = "UP"
    /\ direction = "UP"
    /\ result.kind = "MoveResult"
    /\ Len(positions) >= 2
    /\ positions[1] = Step(positions[2], "UP")

\* C3: an advance returns WALL_HIT iff the candidate head is outside the grid,
\* whatever the body holds.
C3_WallHitIffOffGrid ==
    [][AdvanceStep => (result' = Blocked("WALL_HIT") <=> ~InGrid(Candidate))]_vars

\* a WALL_HIT whose off-grid candidate is also a body cell
C3_Witness ==
    /\ pc = "Lib"
    /\ result = Blocked("WALL_HIT")
    /\ InGrid(positions[1])
    /\ Step(positions[1], direction) \in Range(Tail(positions))

\* C5: a Blocked advance leaves the body and the target length as they were.
C5_BlockedLeavesBody ==
    [][(AdvanceStep /\ result'.kind = "MoveFailure") =>
          (positions' = positions /\ length' = length)]_vars

\* a SNAKE_HIT of a snake that has grown
C5_Witness ==
    /\ pc = "Lib"
    /\ result = Blocked("SNAKE_HIT")
    /\ Len(positions) >= 3

\* C9: the body is never longer than the target length.
C9_BodyWithinTarget == Len(positions) <= length

\* a snake that grew and then filled its target length by moving
C9_Witness ==
    /\ pc = "Lib"
    /\ result.kind = "MoveResult"
    /\ length >= 3
    /\ Len(positions) = length

----------------------------------------------------------------------------
(* Properties of the game loop, checked under Spec *)

\* C4: an in-grid candidate head that equals a body cell other than the head,
\* the tail cell included, is Blocked(SNAKE_HIT).
C4_BodyCellBlocks ==
    [][(TickStep /\ InGrid(Candidate) /\ Candidate \in Range(Tail(positions))) =>
          result' = Blocked("SNAKE_HIT")]_vars

\* a snake at its target length blocked on its own tail cell
C4_Witness ==
    /\ pc = "GameOver"
    /\ result = Blocked("SNAKE_HIT")
    /\ Len(positions) = length
    /\ Step(positions[1], direction) = positions[Len(positions)]

\* C6: in a tick whose move succeeded, a head on the food grows the target
\* length by one, makes a new Food and stays Running; a head elsewhere leaves
\* the target length and the food as they were.
C6_EatGrowsByOne ==
    [][(TickStep /\ result'.kind = "MoveResult") =>
          /\ pc' = "Running"
          /\ IF positions'[1] = food
             THEN length' = length + 1 /\ ate' /\ InGrid(food')
             ELSE length' = length /\ ~ate' /\ food' = food]_vars

\* a tick that ate: the growth is pending
C6_Witness ==
    /\ pc = "Running"
    /\ ate
    /\ result.kind = "MoveResult"
    /\ Len(positions) < length

\* C7: a Blocked tick ends the session with snake body, target length and food
\* untouched; after it nothing changes the snake or the food but a new round
\* started by the retry key, and nothing happens after exit.
C7_BlockedIsTerminal ==
    [][/\ (TickStep /\ result'.kind = "MoveFailure") =>
             /\ pc' = "GameOver"
             /\ positions' = positions
             /\ length' = length
             /\ food' = food
       /\ pc = "GameOver" =>
             \/ UNCHANGED <<positions, length, direction, food, call, result>>
             \/ /\ pc' = "Running"
                /\ call'.op = "retry"
                /\ positions' = DefaultPositions
                /\ length' = 2
       /\ pc = "Exited" => UNCHANGED vars]_vars

\* a session that ended with the head on the food
C7_Witness ==
    /\ pc = "GameOver"
    /\ result.kind = "MoveFailure"
    /\ positions[1] = food

\* C8: every round, the first and every retry, starts from the default snake.
C8_RoundStartsFresh ==
    call.op \in {"start", "retry"} =>
        /\ positions = << <<1, 1>>, <<0, 0>> >>
        /\ length = 2
        /\ direction = "RIGHT"

\* a round started by a retry
C8_Witness == pc = "Running" /\ call.op = "retry"

\* C10: the body of a round's snake holds no cell twice.
C10_NoDuplicateCells ==
    pc # "Lib" =>
        \A i, j \in 1 .. Len(positions) : i # j => positions[i] # positions[j]

\* a snake grown to five cells
C10_Witness ==
    /\ pc = "Running"
    /\ result.kind = "MoveResult"
    /\ Len(positions) >= 5

----------------------------------------------------------------------------
(* Further properties of the Snake class, checked under LibSpec *)

\* C11: grow() adds one to the target length and leaves the body alone; the
\* body never exceeds the target length (initial length plus the grow calls,
\* as no other call writes it); a successful advance adds one cell while a
\* growth is pending and keeps the length otherwise, and a failed one keeps it.
C11_GrowthIsConservative ==
    [][/\ call'.op = "grow" =>
             /\ length' = length + 1
             /\ positions' = positions
             /\ direction' = direction
       /\ AdvanceStep =>
             /\ length' = length
             /\ Len(positions') =
                   IF result'.kind = "MoveResult" /\ Len(positions) < length
                   THEN Len(positions) + 1
                   ELSE Len(positions)
       /\ Len(positions') <= length']_vars

\* two growths pending right after a grow()
C11_Witness ==
    /\ pc = "Lib"
    /\ call.op = "grow"
    /\ length = Len(positions) + 2

\* C13: move() with a value that is no Direction raises an error, returns
\* neither a MoveResult nor a MoveFailure, and leaves body, target length and
\* facing as they were.
C13_InvalidDirectionRaises ==
    [][\A d \in {"BOGUS"} :
         MoveStep(d) =>
            /\ result' = [kind |-> "ValueError"]
            /\ UNCHANGED <<positions, length, direction>>]_vars

\* a move() call that raised
C13_Witness ==
    /\ pc = "Lib"
    /\ call = [op |-> "move", arg |-> "BOGUS"]
    /\ result.kind = "ValueError"

----------------------------------------------------------------------------
(* Further properties of the game loop, checked under Spec *)

\* C12: the food always lies inside the grid, and the food position changes
\* only where a new Food is constructed: in the eat branch of a tick and at
\* the start of a round.
C12_FoodInGridAndFixed ==
    /\ [](pc # "Lib" => InGrid(food))
    /\ [][food' # food =>
            \/ TickStep /\ result'.kind = "MoveResult" /\ ate'
            \/ pc = "GameOver" /\ pc' = "Running" /\ call'.op = "retry"]_vars

\* a Food made after an eat, in the far corner of the grid
C12_Witness ==
    /\ pc = "Running"
    /\ ate
    /\ food = <<GAME_WIDTH - 1, GAME_HEIGHT - 1>>
    /\ positions[1] # food

\* the first ticks of a round, none of them with input: idle counts them
FirstIdleTicks == fresh /\ idle \in 1 .. 3

\* C14 as stated: after each of the first three ticks without input the head
\* is at (2,1), (3,1), (4,1) and the tail is the cell right behind the head.
C14_TailOneBehind ==
    FirstIdleTicks =>
        /\ result.kind = "MoveResult"
        /\ positions[1] = <<1 + idle, 1>>
        /\ positions[Len(positions)] = <<idle, 1>>

\* C14, amended: the first three ticks without input succeed with the head at
\* (2,1), (3,1), (4,1); the body is a straight run on row 1, each cell one
\* behind the cell before it, and it is longer than two cells exactly by the
\* food eaten on the earlier of these ticks.
C14_StraightRun ==
    FirstIdleTicks =>
        /\ result = MoveResult("RIGHT", <<1 + idle, 1>>)
        /\ \A i \in 1 .. Len(positions) : positions[i] = <<2 + idle - i, 1>>
        /\ Len(positions) = IF ate THEN length - 1 ELSE length
        /\ Len(positions) \in 2 .. 1 + idle
        /\ (Len(positions) = 2 => positions[Len(positions)] = <<idle, 1>>)

\* the third tick, nothing eaten on the way
C14_Witness ==
    /\ FirstIdleTicks
    /\ idle = 3
    /\ positions = << <<4, 1>>, <<3, 1>> >>

\* C15: when a move of a tick returns a MoveResult, the body is as long as
\* the target length of that moment (the eat test comes after).
C15_BodyFillsTarget ==
    [][(TickStep /\ result'.kind = "MoveResult") => Len(positions') = length]_vars

\* a move that took up a growth: four cells, nothing eaten on this tick
C15_Witness ==
    /\ pc = "Running"
    /\ result.kind = "MoveResult"
    /\ ~ate
    /\ length = 4
    /\ Len(positions) = 4

\* C16 as stated: the facing is the direction of the last call that returned
\* a MoveResult, RIGHT before any did: a new snake faces RIGHT, a call that
\* returns a MoveResult leaves the facing at its direction, and any other call
\* leaves the facing as it was.
C16_FacingIsLastMoved ==
    /\ [](call.op = "Snake" => direction = "RIGHT")
    /\ [][AdvanceStep =>
            direction' = IF result'.kind = "MoveResult"
                         THEN result'.direction
                         ELSE direction]_vars

\* C17: food is eaten (target length raised, new Food made) only on a tick
\* whose move succeeded with the new head on the food, wherever on the snake
\* the food lies.
C17_EatenOnlyUnderHead ==
    [][(TickStep /\ (food' # food \/ length' # length)) =>
          (result'.kind = "MoveResult" /\ positions'[1] = food)]_vars

\* a new Food on the head cell the snake has just eaten on
C17_Witness ==
    /\ pc = "Running"
    /\ ate
    /\ food = positions[1]

\* C18 as stated: once a poll has fetched a QUIT event the program has exited.
C18_QuitAlwaysExits == quit_dequeued => pc = "Exited"

MaxDim == IF GAME_WIDTH > GAME_HEIGHT THEN GAME_WIDTH ELSE GAME_HEIGHT

\* C19: a run of ticks without input is at most max(WIDTH, HEIGHT) long, and
\* a run of that length has ended the session.
C19_IdleRunEnds ==
    pc # "Lib" => (idle <= MaxDim /\ (idle = MaxDim => pc = "GameOver"))

\* the longest run there is: from the start of a round into the right wall
C19_Witness ==
    /\ pc = "GameOver"
    /\ result = Blocked("WALL_HIT")
    /\ idle = GAME_WIDTH - 1

Adjacent(a, b) ==
    \/ a[1] = b[1] /\ (a[2] - b[2] = 1 \/ b[2] - a[2] = 1)
    \/ a[2] = b[2] /\ (a[1] - b[1] = 1 \/ b[1] - a[1] = 1)

\* C20 as stated: in every state of a round every body cell is inside the
\* grid, consecutive body cells are orthogonally adjacent, and the head is
\* one step from the neck in the facing.
C20_ConnectedPath ==
    pc # "Lib" =>
        /\ \A i \in 1 .. Len(positions) : InGrid(positions[i])
        /\ \A i \in 1 .. Len(positions) - 1 : Adjacent(positions[i], positions[i + 1])
        /\ (Len(positions) >= 2 => positions[1] = Step(positions[2], direction))

=============================================================================
